---- MODULE Spec2Model ----
(***************************************************************************)
(* Model of src/tax_calculator.py (AustralianTaxCalculator).               *)
(*                                                                         *)
(* Number representation.  The program computes with binary doubles; the   *)
(* model computes with exact decimals held in integers:                    *)
(*   - weekly and annual amounts are in cents;                             *)
(*   - annual tax and tax refund are in 1/200 of a cent (every rate of     *)
(*     calculate_annual_tax is a multiple of 0.005, so the tax of an       *)
(*     income in whole cents is a whole number of these units);            *)
(*   - the withholding coefficients a and b are in 1/10000.                *)
(* round(x, 2) returns a cent nearest to x.  When x lies exactly halfway   *)
(* between two cents the double that the program rounds is a hair above or *)
(* below the halfway point, depending on the representation error of the   *)
(* product, so either neighbour can be the result: Round2 returns the set  *)
(* of possible results and the operations built on it return sets of       *)
(* possible outcomes.                                                      *)
(***************************************************************************)
EXTENDS Integers, Sequences, FiniteSets

VARIABLES super_rate, pc, op, arg, flag, ret

vars == <<super_rate, pc, op, arg, flag, ret>>

(***************************************************************************)
(* Constants of the program                                                *)
(***************************************************************************)

\* float('inf'): above every finite amount of the model
INF == 2147483647

\* SUPER_RATE = 0.11, in percent
SUPER_RATE == 11

\* (lower, upper, rate, base): dollars, dollars, rate in 1/200, dollars
TAX_BRACKETS ==
  << <<0, 18200, 0, 0>>,
     <<18201, 45000, 38, 0>>,
     <<45001, 120000, 65, 5092>>,
     <<120001, 180000, 74, 29467>>,
     <<180001, INF, 90, 51667>> >>

\* WITHHOLDING_COEFFICIENTS with the lower bound of the third row mistyped
WithholdingCoefficientsWithGap ==
  << <<0, 359, 0, 0>>,
     <<359, 438, 1900, 683462>>,
     <<439, 548, 2900, 1121942>>,
     <<548, 721, 2100, 683465>>,
     <<721, 865, 2190, 748369>>,
     <<865, 1282, 3477, 1862119>>,
     <<1282, 2307, 3450, 1827504>>,
     <<2307, 3461, 3900, 2865965>>,
     <<3461, INF, 4700, 5635196>> >>

\* (lower, upper, a, b): dollars, dollars, a in 1/10000, b in 1/10000 dollar
WITHHOLDING_COEFFICIENTS ==
  << <<0, 359, 0, 0>>,
     <<359, 438, 1900, 683462>>,
     <<438, 548, 2900, 1121942>>,
     <<548, 721, 2100, 683465>>,
     <<721, 865, 2190, 748369>>,
     <<865, 1282, 3477, 1862119>>,
     <<1282, 2307, 3450, 1827504>>,
     <<2307, 3461, 3900, 2865965>>,
     <<3461, INF, 4700, 5635196>> >>

(***************************************************************************)
(* Python values and outcomes of a call                                    *)
(***************************************************************************)

\* a finite number, in cents
Num(c) == [kind |-> "num", cents |-> c]

\* a Python int too large to convert to float (such as 10**400)
BigInt == [kind |-> "bigint", cents |-> 0]

Returned(v) == [status |-> "returned", error |-> "none", value |-> v]

Raised(e) == [status |-> "raised", error |-> e, value |-> <<>>]

\* Round2 that cuts the digits after the cent instead of rounding
Round2Truncating(n, d) == {n \div d}

\* round(n/d, 2 decimals) for an amount of n/d cents, d > 0: the nearest
\* cent, and either neighbour when n/d is exactly halfway
Round2(n, d) ==
  LET q == n \div d
      r == n % d
  IN  IF 2 * r < d THEN {q}
      ELSE IF 2 * r > d THEN {q + 1}
      ELSE {q, q + 1}

(***************************************************************************)
(* Core calculation methods                                                *)
(***************************************************************************)

\* BranchTax with the cumulative base of the third bracket mistyped
BranchTaxMistypedBase(i, annual_income) ==
  CASE i = 1 -> 0
    [] i = 2 -> 38 * (annual_income - 1820000)
    [] i = 3 -> 200 * 590200 + 65 * (annual_income - 4500000)
    [] i = 4 -> 200 * 2946700 + 74 * (annual_income - 12000000)
    [] i = 5 -> 200 * 5166700 + 90 * (annual_income - 18000000)

\* the return expression of the i-th branch of calculate_annual_tax
BranchTax(i, annual_income) ==
  CASE i = 1 -> 0
    [] i = 2 -> 38 * (annual_income - 1820000)
    [] i = 3 -> 200 * 509200 + 65 * (annual_income - 4500000)
    [] i = 4 -> 200 * 2946700 + 74 * (annual_income - 12000000)
    [] i = 5 -> 200 * 5166700 + 90 * (annual_income - 18000000)

calculate_annual_tax(annual_income) ==
  IF annual_income <= 1820000 THEN BranchTax(1, annual_income)
  ELSE IF annual_income <= 4500000 THEN BranchTax(2, annual_income)
  ELSE IF annual_income <= 12000000 THEN BranchTax(3, annual_income)
  ELSE IF annual_income <= 18000000 THEN BranchTax(4, annual_income)
  ELSE BranchTax(5, annual_income)

\* RowMatches with the bounds closed above: lower < weekly_salary <= upper
RowMatchesClosedAbove(row, weekly_salary) ==
  /\ 100 * row[1] < weekly_salary
  /\ (row[2] = INF \/ weekly_salary <= 100 * row[2])

\* lower <= weekly_salary < upper
RowMatches(row, weekly_salary) ==
  /\ 100 * row[1] <= weekly_salary
  /\ (row[2] = INF \/ weekly_salary < 100 * row[2])

\* RowAmount with the operands of the subtraction swapped
RowAmountSwapped(row, weekly_salary) ==
  Round2(100 * row[4] - row[3] * (weekly_salary + 99), 10000)

\* round(a * (weekly_salary + 0.99) - b, 2)
RowAmount(row, weekly_salary) ==
  Round2(row[3] * (weekly_salary + 99) - 100 * row[4], 10000)

\* the for loop over WITHHOLDING_COEFFICIENTS, from row i on, and the
\* return after it
RECURSIVE ScanRows(_, _)
ScanRows(weekly_salary, i) ==
  IF i > Len(WITHHOLDING_COEFFICIENTS)
  THEN {[amount |-> 0, path |-> "fallback", row |-> 0]}
  ELSE IF RowMatches(WITHHOLDING_COEFFICIENTS[i], weekly_salary)
  THEN {[amount |-> a, path |-> "row", row |-> i] :
          a \in RowAmount(WITHHOLDING_COEFFICIENTS[i], weekly_salary)}
  ELSE ScanRows(weekly_salary, i + 1)

calculate_weekly_withholding(weekly_salary) ==
  IF weekly_salary < 35900
  THEN {[amount |-> 0, path |-> "below_threshold", row |-> 0]}
  ELSE ScanRows(weekly_salary, 1)

\* round(base_salary * rate, 2)
calculate_superannuation(base_salary, rate) ==
  Round2(rate * base_salary, 100)

\* separate_super_from_package with the rate applied to the package
SeparateRateOfPackage(total_package, rate) ==
  {<<b, s>> : b \in Round2(100 * total_package, 100 + rate),
              s \in Round2(rate * total_package, 100)}

\* base_salary = total_package / (1 + rate); super_amount = base_salary * rate
separate_super_from_package(total_package, rate) ==
  {<<b, s>> : b \in Round2(100 * total_package, 100 + rate),
              s \in Round2(rate * total_package, 100 + rate)}

(***************************************************************************)
(* Comprehensive calculation methods                                       *)
(***************************************************************************)

\* the dictionary calculate_full_breakdown returns, from the weekly figures
Breakdown(weekly_salary, base_weekly, weekly_super, weekly_withholding) ==
  LET annual_base == base_weekly * 52
      annual_super == weekly_super * 52
      annual_withholding == weekly_withholding * 52
      annual_tax == calculate_annual_tax(annual_base)
  IN  [weekly_salary |-> weekly_salary,
       base_weekly |-> base_weekly,
       weekly_super |-> weekly_super,
       weekly_withholding |-> weekly_withholding,
       weekly_net |-> base_weekly - weekly_withholding,
       annual_base |-> annual_base,
       annual_super |-> annual_super,
       annual_withholding |-> annual_withholding,
       annual_tax |-> annual_tax,
       tax_refund |-> 200 * annual_withholding - annual_tax,
       \* annual_tax / annual_base * 100 as the fraction num/den
       effective_rate |-> IF annual_base > 0
                          THEN [num |-> annual_tax, den |-> 2 * annual_base]
                          ELSE [num |-> 0, den |-> 1]]

\* (base_weekly, weekly_super) of lines 186-190
WeeklySplit(weekly_salary, include_super_in_salary, rate) ==
  IF include_super_in_salary
  THEN separate_super_from_package(weekly_salary, rate)
  ELSE {<<weekly_salary, s>> : s \in calculate_superannuation(weekly_salary, rate)}

\* the possible outcomes of calculate_full_breakdown; a Python int beyond
\* the float range makes total_package / (1 + rate) (line 166) and
\* base_salary * rate (line 149) raise OverflowError
calculate_full_breakdown(weekly_salary, include_super_in_salary, rate) ==
  IF weekly_salary.kind = "bigint"
  THEN {Raised("OverflowError")}
  ELSE UNION {
         {Returned(Breakdown(weekly_salary.cents, p[1], p[2], w.amount)) :
            w \in calculate_weekly_withholding(p[1])} :
         p \in WeeklySplit(weekly_salary.cents, include_super_in_salary, rate)}

\* Comprehension that puts each new breakdown in front of the earlier ones
RECURSIVE ComprehensionPrepending(_, _, _)
ComprehensionPrepending(salaries, results, rate) ==
  IF salaries = <<>>
  THEN {Returned(results)}
  ELSE UNION {
         IF o.status = "raised"
         THEN {o}
         ELSE ComprehensionPrepending(Tail(salaries), <<o.value>> \o results, rate) :
         o \in calculate_full_breakdown(Head(salaries), TRUE, rate)}

\* the list comprehension of process_batch: results holds the breakdowns of
\* the items already processed; an exception of an item leaves the
\* comprehension and process_batch
RECURSIVE Comprehension(_, _, _)
Comprehension(salaries, results, rate) ==
  IF salaries = <<>>
  THEN {Returned(results)}
  ELSE UNION {
         IF o.status = "raised"
         THEN {o}
         ELSE Comprehension(Tail(salaries), Append(results, o.value), rate) :
         o \in calculate_full_breakdown(Head(salaries), TRUE, rate)}

process_batch(salaries, rate) == Comprehension(salaries, <<>>, rate)

(***************************************************************************)
(* Inputs of the model                                                     *)
(***************************************************************************)

\* cents on either side of a table boundary
Window == 250

\* the coarse grid of weekly amounts: GridCount steps of GridStep dollars
GridStep == 250

GridCount == 16

\* the coarse grid of annual incomes: AnnualGridCount steps of
\* AnnualGridStep dollars
AnnualGridStep == 10000

AnnualGridCount == 22

\* longest batch
MaxBatch == 3

Around(c) == (c - Window)..(c + Window)

\* the weekly salaries of main()
DemoSalaries == <<1693, 1358, 1772, 2234, 1308, 1308, 2263, 1835, 1184, 1717>>

RowBounds == {WITHHOLDING_COEFFICIENTS[i][1] : i \in 2..Len(WITHHOLDING_COEFFICIENTS)}

\* weekly salaries given to calculate_weekly_withholding
SalaryInputs ==
  UNION {Around(100 * b) \cap Nat : b \in RowBounds \cup {0}}
    \cup {100 * GridStep * k : k \in 0..GridCount}
    \cup {100 * DemoSalaries[i] : i \in 1..Len(DemoSalaries)}

NegativeInputs == {-1, -10000, -50000}

\* weekly amounts given to the methods that split a package: also the
\* packages whose base salary is near a row boundary
PackageInputs ==
  SalaryInputs
    \cup UNION {Around((100 + SUPER_RATE) * b) : b \in RowBounds}
    \cup NegativeInputs

BracketBounds == {TAX_BRACKETS[i][2] : i \in 1..(Len(TAX_BRACKETS) - 1)}

\* annual incomes given to calculate_annual_tax
IncomeInputs ==
  UNION {Around(100 * b) : b \in BracketBounds}
    \cup {100 * (b + 1) : b \in BracketBounds}
    \cup {100 * AnnualGridStep * k : k \in 0..AnnualGridCount}
    \cup {8803600, -100}

BatchItems == {Num(169300), Num(135800), Num(39903), Num(-10000), BigInt}

RECURSIVE SeqsUpTo(_, _)
SeqsUpTo(S, n) ==
  IF n = 0 THEN {<<>>}
  ELSE LET shorter == SeqsUpTo(S, n - 1)
       IN  shorter \cup {Append(q, x) : q \in shorter, x \in S}

BatchInputs ==
  SeqsUpTo(BatchItems, MaxBatch)
    \cup {[i \in 1..Len(DemoSalaries) |-> Num(100 * DemoSalaries[i])]}

(***************************************************************************)
(* The calculator: constructed, one call pending, then the call's outcome  *)
(***************************************************************************)

NoValue == <<>>

Init ==
  /\ super_rate = SUPER_RATE
  /\ pc = "call"
  /\ ret = NoValue
  /\ \/ op = "calculate_annual_tax" /\ arg \in IncomeInputs /\ flag = FALSE
     \/ op = "calculate_weekly_withholding"
          /\ arg \in SalaryInputs \cup NegativeInputs /\ flag = FALSE
     \/ op = "calculate_superannuation" /\ arg \in PackageInputs /\ flag = FALSE
     \/ op = "separate_super_from_package" /\ arg \in PackageInputs /\ flag = FALSE
     \/ op = "calculate_full_breakdown"
          /\ arg \in {Num(c) : c \in PackageInputs} \cup {BigInt}
          /\ flag \in BOOLEAN
     \/ op = "process_batch" /\ arg \in BatchInputs /\ flag = TRUE

Done(r) ==
  /\ pc' = "done"
  /\ ret' = r
  /\ UNCHANGED <<super_rate, op, arg, flag>>

CallAnnualTax ==
  /\ pc = "call" /\ op = "calculate_annual_tax"
  /\ Done(calculate_annual_tax(arg))

CallWeeklyWithholding ==
  /\ pc = "call" /\ op = "calculate_weekly_withholding"
  /\ \E w \in calculate_weekly_withholding(arg) : Done(w)

CallSuperannuation ==
  /\ pc = "call" /\ op = "calculate_superannuation"
  /\ \E s \in calculate_superannuation(arg, super_rate) : Done(s)

CallSeparateSuper ==
  /\ pc = "call" /\ op = "separate_super_from_package"
  /\ \E p \in separate_super_from_package(arg, super_rate) : Done(p)

CallFullBreakdown ==
  /\ pc = "call" /\ op = "calculate_full_breakdown"
  /\ \E o \in calculate_full_breakdown(arg, flag, super_rate) : Done(o)

CallProcessBatch ==
  /\ pc = "call" /\ op = "process_batch"
  /\ \E o \in process_batch(arg, super_rate) : Done(o)

Next ==
  \/ CallAnnualTax
  \/ CallWeeklyWithholding
  \/ CallSuperannuation
  \/ CallSeparateSuper
  \/ CallFullBreakdown
  \/ CallProcessBatch

Spec == Init /\ [][Next]_vars

(***************************************************************************)
(* Properties                                                              *)
(***************************************************************************)

\* C1: for every negative weekly amount and either value of
\* include_super_in_salary, calculate_full_breakdown ends in an InvalidInput
\* error and returns no breakdown.
C1_NegativeAmountRaisesInvalidInput ==
  (/\ pc = "done" /\ op = "calculate_full_breakdown"
   /\ arg.kind = "num" /\ arg.cents < 0)
    => (ret.status = "raised" /\ ret.error = "InvalidInput")

\* C2: when calculate_full_breakdown fails for one item of a batch,
\* process_batch still returns one outcome per input item, in order: the
\* breakdown of every item that does not fail and the error of the failing
\* one at its index.
C2_BatchIsolatesItemFailure ==
  (/\ pc = "done" /\ op = "process_batch"
   /\ \E k \in 1..Len(arg) :
        \A o \in calculate_full_breakdown(arg[k], TRUE, super_rate) :
          o.status = "raised")
    => (/\ ret.status = "returned"
        /\ Len(ret.value) = Len(arg)
        /\ \A k \in 1..Len(arg) :
             ret.value[k] \in calculate_full_breakdown(arg[k], TRUE, super_rate))

\* C3: for every list of non-negative weekly amounts, process_batch returns
\* a sequence of the same length whose k-th element is the breakdown
\* calculate_full_breakdown gives for the k-th input.
C3_BatchPreservesOrderAndLength ==
  (/\ pc = "done" /\ op = "process_batch"
   /\ \A k \in 1..Len(arg) : arg[k].kind = "num" /\ arg[k].cents >= 0)
    => (/\ ret.status = "returned"
        /\ Len(ret.value) = Len(arg)
        /\ \A k \in 1..Len(arg) :
             Returned(ret.value[k])
               \in calculate_full_breakdown(arg[k], TRUE, super_rate))

\* a batch of two different non-negative amounts has been processed
C3_Witness ==
  /\ pc = "done" /\ op = "process_batch"
  /\ Len(arg) >= 2
  /\ \A k \in 1..Len(arg) : arg[k].kind = "num" /\ arg[k].cents >= 0
  /\ arg[1] # arg[2]
  /\ ret.status = "returned"

\* C4 as stated: for the weekly package 1693 with super included and the
\* rate 0.11, base_weekly = 1524.32, weekly_super = 167.68 and
\* weekly_withholding = 401.68.
C4_Original ==
  (/\ pc = "done" /\ op = "calculate_full_breakdown"
   /\ arg = Num(169300) /\ flag /\ super_rate = SUPER_RATE)
    => (/\ ret.status = "returned"
        /\ ret.value.base_weekly = 152432
        /\ ret.value.weekly_super = 16768
        /\ ret.value.weekly_withholding = 40168)

\* C4 amended: for the weekly package 1693 with super included and the rate
\* 0.11, base_weekly = 1525.23, weekly_super = 167.77 and
\* weekly_withholding = 343.80.
C4_PackageScenario ==
  (/\ pc = "done" /\ op = "calculate_full_breakdown"
   /\ arg = Num(169300) /\ flag /\ super_rate = SUPER_RATE)
    => (/\ ret.status = "returned"
        /\ ret.value.base_weekly = 152523
        /\ ret.value.weekly_super = 16777
        /\ ret.value.weekly_withholding = 34380)

\* the breakdown of the package 1693 has been returned
C4_Witness ==
  /\ pc = "done" /\ op = "calculate_full_breakdown"
  /\ arg = Num(169300) /\ flag /\ super_rate = SUPER_RATE
  /\ ret.status = "returned"

\* C5: at each bracket boundary B of calculate_annual_tax the formula of the
\* bracket ending at B, which gives the tax at B, and the formula of the
\* bracket starting above B have the same value, and the tax one cent above
\* B exceeds the tax at B by no more than the upper bracket's rate times one
\* cent.
C5_ContinuousAtBoundaries ==
  (pc = "done" /\ op = "calculate_annual_tax")
    => \A i \in 1..4 :
         LET B == <<1820000, 4500000, 12000000, 18000000>>[i]
             upperRate == <<38, 65, 74, 90>>[i]
         IN  /\ arg = B => (ret = BranchTax(i, B) /\ ret = BranchTax(i + 1, B))
             /\ arg = B + 1 =>
                  (/\ ret >= calculate_annual_tax(B)
                   /\ ret - calculate_annual_tax(B) <= upperRate)

\* the tax of an income one cent above the boundary 45000 has been computed
C5_Witness ==
  /\ pc = "done" /\ op = "calculate_annual_tax"
  /\ arg = 4500001 /\ ret > 0

\* C6: for every non-negative annual income the row of TAX_BRACKETS whose
\* range lowerBound..upperBound contains the income exists, and
\* calculate_annual_tax equals base + rate * (income - lowerBound) for it.
C6_TableAgreesWithAnnualTax ==
  (pc = "done" /\ op = "calculate_annual_tax" /\ arg >= 0)
    => \E i \in 1..Len(TAX_BRACKETS) :
         LET row == TAX_BRACKETS[i]
         IN  /\ 100 * row[1] <= arg
             /\ (row[2] = INF \/ arg <= 100 * row[2])
             /\ ret = 200 * 100 * row[4] + row[3] * (arg - 100 * row[1])

\* C7: for every non-negative weekly salary s, calculate_weekly_withholding
\* is 0 when s < 359, and otherwise a * (s + 0.99) - b rounded to the cent
\* for the one row with lower <= s < upper; a salary on a row boundary uses
\* the row that starts there.
C7_WithholdingByRow ==
  (pc = "done" /\ op = "calculate_weekly_withholding" /\ arg >= 0)
    => /\ arg < 35900 => ret.amount = 0
       /\ arg >= 35900 =>
            \E i \in 1..Len(WITHHOLDING_COEFFICIENTS) :
              LET row == WITHHOLDING_COEFFICIENTS[i]
                  exact == row[3] * (arg + 99) - 100 * row[4]
              IN  /\ 100 * row[1] <= arg
                  /\ (row[2] = INF \/ arg < 100 * row[2])
                  /\ 2 * (10000 * ret.amount - exact) <= 10000
                  /\ 2 * (exact - 10000 * ret.amount) <= 10000
                  /\ ret.row = i
       /\ \A i \in 2..Len(WITHHOLDING_COEFFICIENTS) :
            arg = 100 * WITHHOLDING_COEFFICIENTS[i][1] => ret.row = i

\* the withholding of a salary on the boundary 438 has been computed
C7_Witness ==
  /\ pc = "done" /\ op = "calculate_weekly_withholding"
  /\ arg = 43800 /\ ret.path = "row" /\ ret.amount > 0

\* C8: for every non-negative total package and the rate 0.11 the pair
\* (base_salary, super_amount) of separate_super_from_package satisfies
\* |base_salary + super_amount - total_package| <= 0.01.
C8_SplitAddsUpWithinOneCent ==
  (/\ pc = "done" /\ op = "separate_super_from_package"
   /\ arg >= 0 /\ super_rate = SUPER_RATE)
    => (/\ ret[1] + ret[2] - arg <= 1
        /\ arg - (ret[1] + ret[2]) <= 1)

\* the package 1693 has been split
C8_Witness ==
  /\ pc = "done" /\ op = "separate_super_from_package"
  /\ arg = 169300 /\ ret[1] > 0 /\ ret[2] > 0

\* C9: for every non-negative weekly salary exactly one row of
\* WITHHOLDING_COEFFICIENTS has lower <= salary < upper, and
\* calculate_weekly_withholding does not reach the return after its loop.
C9_OneRowAndNoFallback ==
  (pc = "done" /\ op = "calculate_weekly_withholding" /\ arg >= 0)
    => /\ Cardinality({i \in 1..Len(WITHHOLDING_COEFFICIENTS) :
                         /\ 100 * WITHHOLDING_COEFFICIENTS[i][1] <= arg
                         /\ \/ WITHHOLDING_COEFFICIENTS[i][2] = INF
                            \/ arg < 100 * WITHHOLDING_COEFFICIENTS[i][2]}) = 1
       /\ ret.path # "fallback"

\* the withholding of a salary of the last, unbounded row has been computed
C9_Witness ==
  /\ pc = "done" /\ op = "calculate_weekly_withholding"
  /\ arg > 346100 /\ ret.path = "row"

\* C10: for every non-negative weekly amount and either value of
\* include_super_in_salary (rate 0.11) the breakdown satisfies
\* 0 <= weekly_withholding <= base_weekly, and weekly_net = base_weekly -
\* weekly_withholding is not negative.
C10_WithholdingWithinBase ==
  (/\ pc = "done" /\ op = "calculate_full_breakdown"
   /\ arg.kind = "num" /\ arg.cents >= 0 /\ super_rate = SUPER_RATE)
    => (/\ ret.status = "returned"
        /\ 0 <= ret.value.weekly_withholding
        /\ ret.value.weekly_withholding <= ret.value.base_weekly
        /\ ret.value.weekly_net
             = ret.value.base_weekly - ret.value.weekly_withholding
        /\ ret.value.weekly_net >= 0)

\* a breakdown with a positive withholding has been returned for an amount
\* that does not include super
C10_Witness ==
  /\ pc = "done" /\ op = "calculate_full_breakdown"
  /\ arg.kind = "num" /\ arg.cents >= 35900 /\ ~flag
  /\ ret.status = "returned" /\ ret.value.weekly_withholding > 0

====
